---- MODULE Spec2Model ----
(***************************************************************************)
(* Model of the release-retrieval engine of github-release-digest:         *)
(*   - Repository (core/repository.ts): executeWithRetry with its circuit  *)
(*     breaker, isRetryableError, fetchAllRepositories with early stop,    *)
(*     fetchSpecificRepositories;                                          *)
(*   - Release (core/release.ts): getReleases with its date window, the    *)
(*     Snowflake path and the (disabled) GitHub fallback.                  *)
(* Times are milliseconds.  The Repository clock starts at 0; dates of the  *)
(* Release part are milliseconds after a UTC midnight taken as the origin.  *)
(***************************************************************************)
EXTENDS Integers, Sequences, FiniteSets, TLC

VARIABLES
  now,             \* Date.now() of the process
  circuitBreaker,  \* Repository.circuitBreaker: failureCount, lastFailureTime, isOpen
  earlyStopEnabled,\* Repository.earlyStopConfig.enabled
  calls,           \* number of public calls made on this Repository so far
  mode,            \* which public method of Repository is running
  upstream,        \* the organisation as the GraphQL API serves it (pages)
  startDate,       \* fetchAllRepositories: params.startDate
  cutoffDate,      \* fetchAllRepositories: cutoffDate
  repositories,    \* fetchAllRepositories / fetchSpecificRepositories: repositories
  hasNextPage,     \* fetchAllRepositories: hasNextPage
  cursor,          \* fetchAllRepositories: cursor (0 is null)
  pageCount,       \* fetchAllRepositories: stats.pageCount
  names,           \* fetchSpecificRepositories: repositoryNames
  nameIdx,         \* fetchSpecificRepositories: position of the for loop
  outcome,         \* how the last public call ended, and with what
  epc,             \* executeWithRetry: position ("idle" when not running)
  attempt,         \* executeWithRetry: attempt
  lastError,       \* executeWithRetry: lastError
  execResult,      \* executeWithRetry: the value it returned
  opCalls,         \* history: invocations of operation() in this executeWithRetry call
  delays,          \* history: the backoff sleeps of this executeWithRetry call
  failures,        \* history: the errors of the failed attempts of this call
  openAtStart,     \* history: circuitBreaker.isOpen when this call started
  gateWait,        \* history: what this call slept at the circuit breaker check
  run502,          \* history: 502 failures since the last successful operation
  runSinceReset,   \* history: 502 failures since that operation or the last cooldown reset
  requested,       \* history: the cursors (fetchAllRepositories) or the names
                   \*          (fetchSpecificRepositories) asked of the API, in order
  skipped,         \* history: positions of the names fetchSpecificRepositories gave up on
  clsError,        \* isRetryableError: the error handed to it
  classified,      \* isRetryableError: its verdict on clsError
  relNow,          \* getReleases: the clock when calculateDateRange reads it
  config,          \* getReleases: timeframe, repositories, snowflake of the config
  github,          \* the organisation as the GitHub API would show it
  window,          \* getReleases: startDate and endDate
  relPc,           \* getReleases: position
  releases,        \* getReleases: releases, the value returned
  relError,        \* getReleases: the error thrown to the caller
  bulkFailed,      \* history: the Snowflake path threw in this call
  githubCalls,     \* history: calls getReleases made into Repository
  bulkCalls,       \* history: calls getReleases made to fetchReleasesFromSnowflake
  procPublishedAt, \* isReleaseInDateRange: publishedAt
  procRange,       \* isReleaseInDateRange / processRepositories: dateRange
  inRange,         \* isReleaseInDateRange: its verdict on procPublishedAt
  procRepos,       \* processRepositories: repositories
  procReleases,    \* processRepositories: what it returned
  openai,          \* AI/open-router: the module's OpenRouter client, once created
  sumPc,           \* summarizeText: position
  sumText,         \* summarizeText: text
  sumEnv,          \* what summarizeText finds: files, configuration and API keys
  sumPrompt,       \* summarizeText: prompt
  sumTried,        \* history: the providers summarizeText turned to, in order
  sumSent,         \* history: the requests that went out, provider and model
  sumFailed,       \* history: why the Anthropic attempt gave no summary, if it did not
  sumResult        \* summarizeText: the value returned

repoVars == <<now, circuitBreaker, earlyStopEnabled, calls, mode, upstream, startDate,
              cutoffDate, repositories, hasNextPage, cursor, pageCount, names, nameIdx,
              outcome, epc, attempt, lastError, execResult, opCalls, delays, failures,
              openAtStart, gateWait, run502, runSinceReset, requested, skipped>>

\* what the caller of executeWithRetry holds while it runs
callerVars == <<earlyStopEnabled, calls, mode, upstream, startDate, cutoffDate,
                repositories, hasNextPage, cursor, pageCount, names, nameIdx, outcome,
                requested, skipped>>

\* the locals of executeWithRetry and their history
execVars == <<attempt, lastError, execResult, opCalls, delays, failures, openAtStart,
              gateWait>>

classifyVars == <<clsError, classified>>

releaseVars == <<relNow, config, github, window, relPc, releases, relError, bulkFailed,
                 githubCalls, bulkCalls>>

\* what no method of Repository touches
processVars == <<procPublishedAt, procRange, inRange, procRepos, procReleases>>

summaryVars == <<openai, sumPc, sumText, sumEnv, sumPrompt, sumTried, sumSent, sumFailed,
                 sumResult>>

outsideRepository == <<classifyVars, releaseVars, processVars, summaryVars>>

vars == <<repoVars, classifyVars, releaseVars, processVars, summaryVars>>

-----------------------------------------------------------------------------
(* Bounds of the model *)

\* public calls made on one Repository instance
MaxCalls == 2

-----------------------------------------------------------------------------
(* Repository configuration *)

maxRetries == 5
baseDelay == 2000
maxDelay == 30000
cutoffDays == 7
threshold == 3
timeout == 60000
gatewayBaseDelay == 5000
pageDelay == 200
maxInclusiveDays == 7

\* time that may pass between two public calls, per step
IdleMs == timeout \div 2

Day == 24 * 60 * 60 * 1000
T == 10 * Day

Min(a, b) == IF a < b THEN a ELSE b

RECURSIVE Pow2(_)
Pow2(n) == IF n = 0 THEN 1 ELSE 2 * Pow2(n - 1)

-----------------------------------------------------------------------------
(* Errors the fetch client can throw.  An error is the record of the       *)
(* properties executeWithRetry and isRetryableError read:                  *)
(*   name, 'response' in error, headers.status, response.status (0: none), *)
(*   errors is an array, code ("": none), and whether the lower-cased      *)
(*   message includes '502' or 'bad gateway'.                              *)

Err(n, r, hs, rs, es, c, m) ==
  [name |-> n, hasResponse |-> r, headersStatus |-> hs, responseStatus |-> rs,
   hasErrors |-> es, code |-> c, msg502 |-> m]

NoError == Err("", FALSE, 0, 0, FALSE, "", FALSE)
E404 == Err("HttpError", TRUE, 0, 404, FALSE, "", FALSE)
E502 == Err("HttpError", TRUE, 0, 502, FALSE, "", TRUE)
EConnReset == Err("Error", FALSE, 0, 0, FALSE, "ECONNRESET", FALSE)
EPlain == Err("Error", FALSE, 0, 0, FALSE, "", FALSE)
EPlain502 == Err("Error", FALSE, 0, 0, FALSE, "", TRUE)
EMissingOrganization == Err("Error", FALSE, 0, 0, FALSE, "", FALSE)

\* what a single-repository lookup is made to fail with
OpErrors == {E404, E502, EConnReset, EPlain, EPlain502}
\* what a page request is made to fail with
PageErrors == {E404, E502}

TransportCodes == {"ECONNRESET", "ECONNREFUSED", "ETIMEDOUT", "ENOTFOUND", "EAI_AGAIN"}
FilesystemCodes == {"ENOENT", "EACCES", "EPERM"}

\* headers?.status || response?.status
statusOf(error) ==
  IF error.headersStatus # 0 THEN error.headersStatus ELSE error.responseStatus

\* isRetryableError with the 5xx range starting one too high
OffByOneIsRetryableError(error) ==
  LET envelope == error.name = "GraphqlResponseError" \/ error.hasResponse
      status == statusOf(error)
  IN  IF envelope /\ status # 0 /\ status >= 400 /\ status < 500 THEN FALSE
      ELSE IF envelope /\ status # 0 /\ status > 500 /\ status < 600 THEN TRUE
      ELSE IF envelope /\ error.hasErrors THEN FALSE
      ELSE IF error.code # "" THEN error.code \in TransportCodes
      ELSE FALSE

isRetryableError(error) ==
  LET envelope == error.name = "GraphqlResponseError" \/ error.hasResponse
      status == statusOf(error)
  IN  IF envelope /\ status # 0 /\ status >= 400 /\ status < 500 THEN FALSE
      ELSE IF envelope /\ status # 0 /\ status >= 500 /\ status < 600 THEN TRUE
      ELSE IF envelope /\ error.hasErrors THEN FALSE
      ELSE IF error.code # "" THEN error.code \in TransportCodes
      ELSE FALSE

is502Error(error) == error.msg502

\* The errors isRetryableError is tried on, by the kind of thing that throws them:
\* an HTTP error of the request library (a response with a status, no code),
\* a GraphQL response error (an errors array on a 200 response), a Node.js
\* system error (a code, no response), and a plain Error.
HttpStatuses == {304, 400, 401, 403, 404, 422, 429, 499, 500, 502, 503, 504, 599, 600}
OtherCodes == {"EPIPE", "EMFILE"}

HttpErrors ==
  {Err("HttpError", TRUE, 0, st, FALSE, "", m) : st \in HttpStatuses, m \in BOOLEAN}
GraphqlErrors ==
  {Err("GraphqlResponseError", r, hs, 0, TRUE, "", m) :
     r \in BOOLEAN, hs \in {0, 200}, m \in BOOLEAN}
SystemErrors ==
  {Err("Error", FALSE, 0, 0, FALSE, c, m) :
     c \in TransportCodes \cup FilesystemCodes \cup OtherCodes, m \in BOOLEAN}
PlainErrors ==
  {Err(n, FALSE, 0, 0, FALSE, "", m) : n \in {"Error", "TypeError"}, m \in BOOLEAN}

ErrorShapes == HttpErrors \cup GraphqlErrors \cup SystemErrors \cup PlainErrors

-----------------------------------------------------------------------------
(* The upstream organisation: pages of repositories, most recently updated *)
(* first, as fetchRepositoriesPage returns them.                           *)

\* A timestamp string: ISO-8601 with up to six fractional digits (the whole
\* milliseconds since the epoch and the microseconds after them), or empty.
IsoString(ms, micros) == [kind |-> "iso", ms |-> ms, micros |-> micros]
EmptyString == [kind |-> "empty", ms |-> 0, micros |-> 0]

\* Date.prototype.toISOString: three fractional digits
toISOString(date) == IsoString(date, 0)

\* new Date(string): a Date holds whole milliseconds; the parser drops the
\* fractional digits after the third
newDate(string) == string.ms

Rel(t, p) == [tagName |-> t, name |-> "", publishedAt |-> toISOString(p)]
Repo(n, u, rs) == [name |-> n, updatedAt |-> u, releases |-> rs]
Page(ns, more, c) == [organization |-> TRUE, nodes |-> ns, hasNextPage |-> more, endCursor |-> c]

EmptyPage == Page(<<>>, FALSE, 0)
NoOrganization == [organization |-> FALSE, nodes |-> <<>>, hasNextPage |-> FALSE, endCursor |-> 0]

\* one page [T, T-1d, T-20d] with more pages behind it
OrgRecentAndOld ==
  << Page(<< Repo("r1", T, << Rel("v2", T), Rel("v1", T - 3 * Day) >>),
             Repo("r2", T - Day, << Rel("v1", T - Day) >>),
             Repo("r3", T - 20 * Day, << >>) >>, TRUE, 1),
     Page(<< Repo("r4", T - 21 * Day, << >>) >>, FALSE, 0) >>

\* repositories updated now, two days ago and ten days ago
OrgThree ==
  << Page(<< Repo("r1", T, << Rel("v1", T - Day) >>),
             Repo("r2", T - 2 * Day, << Rel("v1", T - 2 * Day) >>),
             Repo("r3", T - 10 * Day, << Rel("v1", T - 10 * Day) >>) >>, FALSE, 0) >>

\* two pages, all within a week but the last repository
OrgTwoPages ==
  << Page(<< Repo("r1", T, << Rel("v1", T) >>),
             Repo("r2", T - Day, << >>) >>, TRUE, 1),
     Page(<< Repo("r3", T - 2 * Day, << Rel("v1", T - 2 * Day) >>),
             Repo("r4", T - 20 * Day, << >>) >>, FALSE, 0) >>

Orgs == {OrgRecentAndOld, OrgThree, OrgTwoPages, << >>}

StartDates == {T, T - Day, T - 7 * Day}

NameLists == { << "r1" >>, << "zz" >> }

InList(x, list) == \E i \in 1..Len(list) : list[i] = x

\* the page the API serves for `after` (none when after = 0)
PageAt(org, after) == IF after + 1 <= Len(org) THEN org[after + 1] ELSE EmptyPage

RECURSIVE Flatten(_)
Flatten(pages) ==
  IF pages = << >> THEN << >> ELSE pages[1].nodes \o Flatten(Tail(pages))

\* organization.repository of the single-repository query: the repository or null
LookupRepository(org, name) ==
  LET all == Flatten(org)
      hits == {i \in 1..Len(all) : all[i].name = name}
  IN  IF hits = {} THEN << >> ELSE << all[CHOOSE i \in hits : \A j \in hits : i <= j] >>

-----------------------------------------------------------------------------
(* processRepositoryPage *)

\* the release list passed on unfiltered
KeepAllReleases(rs, cutoff) == rs

FilterReleases(rs, cutoff) == SelectSeq(rs, LAMBDA r : newDate(r.publishedAt) >= cutoff)

RECURSIVE processLoop(_, _, _, _)
processLoop(repos, i, cutoff, acc) ==
  IF i > Len(repos) THEN [shouldStop |-> FALSE, processedRepos |-> acc]
  ELSE IF earlyStopEnabled /\ repos[i].updatedAt < cutoff
       THEN [shouldStop |-> TRUE, processedRepos |-> acc]
       ELSE processLoop(repos, i + 1, cutoff,
              Append(acc, Repo(repos[i].name, repos[i].updatedAt,
                               FilterReleases(repos[i].releases, cutoff))))

\* the loop with its break, but shouldStop left false
StopIgnoredPage(repos, cutoff) ==
  [shouldStop |-> FALSE, processedRepos |-> processLoop(repos, 1, cutoff, << >>).processedRepos]

processRepositoryPage(repos, cutoff) == processLoop(repos, 1, cutoff, << >>)

\* the cutoff cutoffDays before the start date
OffsetCutoff(start) == start - cutoffDays * Day

\* fetchAllRepositories: cutoffDate = new Date(startDate); the cutoffDays offset is commented out
cutoffDateOf(start) == start

-----------------------------------------------------------------------------
(* executeWithRetry *)

\* a sleep that resolves at once
ImmediateSleep(ms) == now' = now

\* await sleep(ms): the caller resumes ms later
Sleep(ms) == now' = now + ms

\* the delay growing by baseDelay per attempt instead of doubling
LinearBackoff(is502, att) ==
  IF is502 THEN Min(gatewayBaseDelay * Pow2(att - 1), maxDelay)
  ELSE Min(baseDelay * att, maxDelay)

\* the delay before the next attempt
WithoutCapBackoff(is502, att) ==
  IF is502 THEN gatewayBaseDelay * Pow2(att - 1) ELSE baseDelay * Pow2(att - 1)

backoffDelay(is502, att) ==
  IF is502 THEN Min(gatewayBaseDelay * Pow2(att - 1), maxDelay)
  ELSE Min(baseDelay * Pow2(att - 1), maxDelay)

\* catch block, 502 branch: count the failure and open the breaker at the threshold
LateOpenRecord(cb, at) ==
  [failureCount |-> cb.failureCount + 1, lastFailureTime |-> at,
   isOpen |-> IF cb.failureCount + 1 > threshold THEN TRUE ELSE cb.isOpen]

\* the breaker opening one failure early
EarlyOpenRecord(cb, at) ==
  [failureCount |-> cb.failureCount + 1, lastFailureTime |-> at,
   isOpen |-> IF cb.failureCount + 1 >= threshold - 1 THEN TRUE ELSE cb.isOpen]

record502(cb, at) ==
  [failureCount |-> cb.failureCount + 1, lastFailureTime |-> at,
   isOpen |-> IF cb.failureCount + 1 >= threshold THEN TRUE ELSE cb.isOpen]

\* reset on success
CountOnlyReset(cb) ==
  IF cb.failureCount > 0 THEN [cb EXCEPT !.failureCount = 0] ELSE cb

resetOnSuccess(cb) ==
  IF cb.failureCount > 0 THEN [cb EXCEPT !.failureCount = 0, !.isOpen = FALSE] ELSE cb

\* whether an attempt that failed with `error` ends the call
EagerRetryThrows(error, att) == att = maxRetries

\* giving up one attempt too late
LateRetryThrows(error, att) == ~isRetryableError(error) \/ att = maxRetries + 1

throwsNow(error, att) == ~isRetryableError(error) \/ att = maxRetries

\* the time the open breaker still makes the caller wait
NoRemaining(cb, at) == 0

remainingTime(cb, at) == timeout - (at - cb.lastFailureTime)

\* entering executeWithRetry
BeginExecute ==
  /\ epc' = "gate"
  /\ attempt' = 1
  /\ lastError' = NoError
  /\ execResult' = EmptyPage
  /\ opCalls' = 0
  /\ delays' = << >>
  /\ failures' = << >>
  /\ openAtStart' = circuitBreaker.isOpen
  /\ gateWait' = 0

\* the check closing a cooled-down breaker without clearing its failure count
StaleCountCheckCircuitBreaker ==
  /\ UNCHANGED outsideRepository
  /\ epc = "gate"
  /\ IF circuitBreaker.isOpen
     THEN IF now - circuitBreaker.lastFailureTime < timeout
          THEN /\ Sleep(remainingTime(circuitBreaker, now))
               /\ gateWait' = remainingTime(circuitBreaker, now)
               /\ UNCHANGED circuitBreaker
               /\ UNCHANGED runSinceReset
          ELSE /\ circuitBreaker' = [circuitBreaker EXCEPT !.isOpen = FALSE]
               /\ runSinceReset' = 0
               /\ UNCHANGED <<now, gateWait>>
     ELSE UNCHANGED <<now, circuitBreaker, gateWait, runSinceReset>>
  /\ epc' = "try"
  /\ UNCHANGED <<attempt, lastError, execResult, opCalls, delays, failures, openAtStart,
                 run502>>
  /\ UNCHANGED callerVars

\* lines 227-239: the circuit breaker check
CheckCircuitBreaker ==
  /\ UNCHANGED outsideRepository
  /\ epc = "gate"
  /\ IF circuitBreaker.isOpen
     THEN IF now - circuitBreaker.lastFailureTime < timeout
          THEN /\ Sleep(remainingTime(circuitBreaker, now))
               /\ gateWait' = remainingTime(circuitBreaker, now)
               /\ UNCHANGED circuitBreaker
               /\ UNCHANGED runSinceReset
          ELSE /\ circuitBreaker' = [circuitBreaker EXCEPT !.isOpen = FALSE, !.failureCount = 0]
               /\ runSinceReset' = 0
               /\ UNCHANGED <<now, gateWait>>
     ELSE UNCHANGED <<now, circuitBreaker, gateWait, runSinceReset>>
  /\ epc' = "try"
  /\ UNCHANGED <<attempt, lastError, execResult, opCalls, delays, failures, openAtStart,
                 run502>>
  /\ UNCHANGED callerVars

\* what operation() resolves to when it succeeds
Responses ==
  IF mode = "fetchAll" THEN {PageAt(upstream, cursor), NoOrganization}
  ELSE {LookupRepository(upstream, names[nameIdx])}

\* lines 243-252: operation() resolves
AttemptSucceeds ==
  /\ UNCHANGED outsideRepository
  /\ epc = "try"
  /\ \E r \in Responses : execResult' = r
  /\ circuitBreaker' = resetOnSuccess(circuitBreaker)
  /\ opCalls' = opCalls + 1
  /\ run502' = 0
  /\ runSinceReset' = 0
  /\ epc' = "returned"
  /\ UNCHANGED <<now, attempt, lastError, delays, failures, openAtStart, gateWait>>
  /\ UNCHANGED callerVars

\* lines 253-302: operation() rejects with error
AttemptFails(error) ==
  /\ UNCHANGED outsideRepository
  /\ epc = "try"
  /\ lastError' = error
  /\ opCalls' = opCalls + 1
  /\ failures' = Append(failures, error)
  /\ run502' = IF is502Error(error) THEN run502 + 1 ELSE run502
  /\ runSinceReset' = IF is502Error(error) THEN runSinceReset + 1 ELSE runSinceReset
  /\ circuitBreaker' = IF is502Error(error) THEN record502(circuitBreaker, now)
                       ELSE circuitBreaker
  /\ IF throwsNow(error, attempt)
     THEN /\ epc' = "threw"
          /\ UNCHANGED <<now, attempt, delays>>
     ELSE /\ Sleep(backoffDelay(is502Error(error), attempt))
          /\ delays' = Append(delays, backoffDelay(is502Error(error), attempt))
          /\ attempt' = attempt + 1
          /\ epc' = "try"
  /\ UNCHANGED <<execResult, openAtStart, gateWait>>
  /\ UNCHANGED callerVars

-----------------------------------------------------------------------------
(* fetchAllRepositories *)

Returned(v) == [kind |-> "returned", value |-> v, error |-> NoError]
Threw(e) == [kind |-> "threw", value |-> << >>, error |-> e]
NoOutcome == [kind |-> "none", value |-> << >>, error |-> NoError]

\* lines 161-174: the catch block logs and rethrows; the accumulated pages are dropped
PartialOutcome(error, accumulated) == Returned(accumulated)

catchOutcome(error, accumulated) == Threw(error)

\* lines 82-118: up to the first page request
StartFetchAll(org, start) ==
  /\ UNCHANGED outsideRepository
  /\ mode = "idle"
  /\ calls < MaxCalls
  /\ calls' = calls + 1
  /\ mode' = "fetchAll"
  /\ upstream' = org
  /\ startDate' = start
  /\ cutoffDate' = cutoffDateOf(start)
  /\ repositories' = << >>
  /\ hasNextPage' = TRUE
  /\ cursor' = 0
  /\ pageCount' = 1
  /\ requested' = << 0 >>
  /\ outcome' = NoOutcome
  /\ BeginExecute
  /\ UNCHANGED <<now, circuitBreaker, earlyStopEnabled, names, nameIdx, run502, runSinceReset, skipped>>

\* the page handling with the cursor never advanced
StaleCursorFetchAllPage ==
  /\ UNCHANGED outsideRepository
  /\ mode = "fetchAll"
  /\ epc = "returned"
  /\ IF ~execResult.organization
     THEN \* lines 125-128 and 161-173: thrown, logged, rethrown
          /\ outcome' = Threw(EMissingOrganization)
          /\ mode' = "idle"
          /\ epc' = "idle"
          /\ UNCHANGED <<now, repositories, hasNextPage, cursor, pageCount, requested>>
          /\ UNCHANGED execVars
     ELSE LET res == processRepositoryPage(execResult.nodes, cutoffDate)
              all == repositories \o res.processedRepos
              more == IF res.shouldStop THEN FALSE ELSE execResult.hasNextPage
              next == cursor
          IN  /\ repositories' = all
              /\ hasNextPage' = more
              /\ cursor' = next
              /\ IF more
                 THEN /\ Sleep(pageDelay)
                      /\ pageCount' = pageCount + 1
                      /\ requested' = Append(requested, next)
                      /\ BeginExecute
                      /\ UNCHANGED <<mode, outcome>>
                 ELSE /\ outcome' = Returned(all)
                      /\ mode' = "idle"
                      /\ epc' = "idle"
                      /\ UNCHANGED <<now, pageCount, requested>>
                      /\ UNCHANGED execVars
  /\ UNCHANGED <<circuitBreaker, earlyStopEnabled, calls, upstream, startDate, cutoffDate,
                 names, nameIdx, run502, runSinceReset, skipped>>

\* lines 120-156: a page came back; process it and go round the loop
FetchAllPage ==
  /\ UNCHANGED outsideRepository
  /\ mode = "fetchAll"
  /\ epc = "returned"
  /\ IF ~execResult.organization
     THEN \* lines 125-128 and 161-173: thrown, logged, rethrown
          /\ outcome' = Threw(EMissingOrganization)
          /\ mode' = "idle"
          /\ epc' = "idle"
          /\ UNCHANGED <<now, repositories, hasNextPage, cursor, pageCount, requested>>
          /\ UNCHANGED execVars
     ELSE LET res == processRepositoryPage(execResult.nodes, cutoffDate)
              all == repositories \o res.processedRepos
              more == IF res.shouldStop THEN FALSE ELSE execResult.hasNextPage
              next == IF res.shouldStop THEN cursor ELSE execResult.endCursor
          IN  /\ repositories' = all
              /\ hasNextPage' = more
              /\ cursor' = next
              /\ IF more
                 THEN /\ Sleep(pageDelay)
                      /\ pageCount' = pageCount + 1
                      /\ requested' = Append(requested, next)
                      /\ BeginExecute
                      /\ UNCHANGED <<mode, outcome>>
                 ELSE /\ outcome' = Returned(all)
                      /\ mode' = "idle"
                      /\ epc' = "idle"
                      /\ UNCHANGED <<now, pageCount, requested>>
                      /\ UNCHANGED execVars
  /\ UNCHANGED <<circuitBreaker, earlyStopEnabled, calls, upstream, startDate, cutoffDate,
                 names, nameIdx, run502, runSinceReset, skipped>>

\* lines 161-173: executeWithRetry threw; log and rethrow
FetchAllCatch ==
  /\ UNCHANGED outsideRepository
  /\ mode = "fetchAll"
  /\ epc = "threw"
  /\ outcome' = catchOutcome(lastError, repositories)
  /\ mode' = "idle"
  /\ epc' = "idle"
  /\ UNCHANGED <<now, circuitBreaker, earlyStopEnabled, calls, upstream, startDate,
                 cutoffDate, repositories, hasNextPage, cursor, pageCount, names, nameIdx,
                 run502, runSinceReset, requested, skipped>>
  /\ UNCHANGED execVars

-----------------------------------------------------------------------------
(* fetchSpecificRepositories *)

\* lines 49-60: up to the first lookup
StartFetchSpecific(org, repositoryNames) ==
  /\ UNCHANGED outsideRepository
  /\ mode = "idle"
  /\ calls < MaxCalls
  /\ calls' = calls + 1
  /\ mode' = "fetchSpecific"
  /\ upstream' = org
  /\ names' = repositoryNames
  /\ nameIdx' = 1
  /\ repositories' = << >>
  /\ skipped' = << >>
  /\ requested' = << repositoryNames[1] >>
  /\ outcome' = NoOutcome
  /\ BeginExecute
  /\ UNCHANGED <<now, circuitBreaker, earlyStopEnabled, startDate, cutoffDate,
                 hasNextPage, cursor, pageCount, run502, runSinceReset>>

\* the loop of fetchSpecificRepositories without its try/catch: a lookup that
\* throws ends the whole call
UncaughtFetchSpecificNext ==
  /\ UNCHANGED outsideRepository
  /\ mode = "fetchSpecific"
  /\ epc \in {"returned", "threw"}
  /\ IF epc = "threw"
     THEN /\ outcome' = Threw(lastError)
          /\ mode' = "idle"
          /\ epc' = "idle"
          /\ UNCHANGED <<repositories, skipped, nameIdx, requested>>
          /\ UNCHANGED execVars
     ELSE LET found == execResult # << >>
              all == IF found THEN repositories \o execResult ELSE repositories
          IN  /\ repositories' = all
              /\ skipped' = IF found THEN skipped ELSE Append(skipped, nameIdx)
              /\ IF nameIdx < Len(names)
                 THEN /\ nameIdx' = nameIdx + 1
                      /\ requested' = Append(requested, names[nameIdx + 1])
                      /\ BeginExecute
                      /\ UNCHANGED <<mode, outcome>>
                 ELSE /\ outcome' = Returned(all)
                      /\ mode' = "idle"
                      /\ epc' = "idle"
                      /\ UNCHANGED <<nameIdx, requested>>
                      /\ UNCHANGED execVars
  /\ UNCHANGED <<now, circuitBreaker, earlyStopEnabled, calls, upstream, startDate,
                 cutoffDate, hasNextPage, cursor, pageCount, names, run502, runSinceReset>>

\* lines 62-72: one lookup ended (found, null, or thrown and caught); next name
FetchSpecificNext ==
  /\ UNCHANGED outsideRepository
  /\ mode = "fetchSpecific"
  /\ epc \in {"returned", "threw"}
  /\ LET found == epc = "returned" /\ execResult # << >>
         all == IF found THEN repositories \o execResult ELSE repositories
     IN  /\ repositories' = all
         /\ skipped' = IF found THEN skipped ELSE Append(skipped, nameIdx)
         /\ IF nameIdx < Len(names)
            THEN /\ nameIdx' = nameIdx + 1
                 /\ requested' = Append(requested, names[nameIdx + 1])
                 /\ BeginExecute
                 /\ UNCHANGED <<mode, outcome>>
            ELSE /\ outcome' = Returned(all)
                 /\ mode' = "idle"
                 /\ epc' = "idle"
                 /\ UNCHANGED <<nameIdx, requested>>
                 /\ UNCHANGED execVars
  /\ UNCHANGED <<now, circuitBreaker, earlyStopEnabled, calls, upstream, startDate,
                 cutoffDate, hasNextPage, cursor, pageCount, names, run502, runSinceReset>>

\* time passes between two public calls (once the cooldown is over, more of it
\* changes nothing executeWithRetry can tell)
TimePasses ==
  /\ UNCHANGED outsideRepository
  /\ mode = "idle"
  /\ calls < MaxCalls
  /\ now - circuitBreaker.lastFailureTime < timeout
  /\ now' = now + IdleMs
  /\ UNCHANGED <<circuitBreaker, epc, run502, runSinceReset>>
  /\ UNCHANGED execVars
  /\ UNCHANGED callerVars

-----------------------------------------------------------------------------

NoClassification == clsError = NoError /\ classified = "unknown"

NoWindow == [startDate |-> 0, endDate |-> 0]
NoConfig == [timeframe |-> << >>, repositories |-> << >>, snowflake |-> FALSE]

NoReleaseCall ==
  /\ relNow = 0
  /\ config = NoConfig
  /\ github = << >>
  /\ window = NoWindow
  /\ relPc = "idle"
  /\ releases = << >>
  /\ relError = ""
  /\ bulkFailed = FALSE
  /\ githubCalls = 0
  /\ bulkCalls = 0

NoProcessCall ==
  /\ procPublishedAt = EmptyString
  /\ procRange = NoWindow
  /\ inRange = "unknown"
  /\ procRepos = << >>
  /\ procReleases = [done |-> FALSE, releases |-> << >>]

NoSummaryCall ==
  /\ openai = FALSE
  /\ sumPc = "idle"
  /\ sumText = << >>
  /\ sumEnv = [instructions |-> FALSE, config |-> FALSE, ANTHROPIC_MODEL |-> "",
               ANTHROPIC_API_KEY |-> "", OPENROUTER_API_KEY |-> "", AI_MODEL |-> ""]
  /\ sumPrompt = << >>
  /\ sumTried = << >>
  /\ sumSent = << >>
  /\ sumFailed = ""
  /\ sumResult = << >>

NoRepositoryCall ==
  /\ now = 0
  /\ circuitBreaker = [failureCount |-> 0, lastFailureTime |-> 0, isOpen |-> FALSE]
  /\ calls = 0
  /\ mode = "idle"
  /\ upstream = << >>
  /\ startDate = 0
  /\ cutoffDate = 0
  /\ repositories = << >>
  /\ hasNextPage = FALSE
  /\ cursor = 0
  /\ pageCount = 0
  /\ names = << >>
  /\ nameIdx = 0
  /\ outcome = NoOutcome
  /\ epc = "idle"
  /\ attempt = 0
  /\ lastError = NoError
  /\ execResult = EmptyPage
  /\ opCalls = 0
  /\ delays = << >>
  /\ failures = << >>
  /\ openAtStart = FALSE
  /\ gateWait = 0
  /\ run502 = 0
  /\ runSinceReset = 0
  /\ requested = << >>
  /\ skipped = << >>

\* a Repository as constructed
InitRepository == NoRepositoryCall /\ earlyStopEnabled = TRUE

Init == InitRepository /\ NoClassification /\ NoReleaseCall /\ NoProcessCall /\ NoSummaryCall

\* lookups by name on one Repository, with time passing between the calls
Next ==
  \/ \E repositoryNames \in NameLists : StartFetchSpecific(OrgThree, repositoryNames)
  \/ CheckCircuitBreaker
  \/ AttemptSucceeds
  \/ \E error \in OpErrors : AttemptFails(error)
  \/ FetchSpecificNext
  \/ TimePasses

Spec == Init /\ [][Next]_vars

\* isRetryableError applied to one error
Classify ==
  /\ classified = "unknown"
  /\ classified' = IF isRetryableError(clsError) THEN "retryable" ELSE "fatal"
  /\ UNCHANGED <<clsError, repoVars, releaseVars, processVars, summaryVars>>

InitClassify ==
  /\ InitRepository
  /\ NoReleaseCall
  /\ NoProcessCall
  /\ NoSummaryCall
  /\ clsError \in ErrorShapes
  /\ classified = "unknown"

NextClassify == Classify

SpecClassify == InitClassify /\ [][NextClassify]_vars

-----------------------------------------------------------------------------
(* Release: the date window *)

Hour == 60 * 60 * 1000

\* setUTCHours(0, 0, 0, 0) and setUTCHours(23, 59, 59, 999)
startOfDay(t) == (t \div Day) * Day
endOfDay(t) == startOfDay(t) + Day - 1

Timeframe(type, value, hasStart, start, hasEnd, end) ==
  [type |-> type, value |-> value, hasStartDate |-> hasStart, startDate |-> start,
   hasEndDate |-> hasEnd, endDate |-> end]

DateRange(start, end) == [error |-> "", startDate |-> start, endDate |-> end]
RangeError(message) == [error |-> message, startDate |-> 0, endDate |-> 0]

inclusiveDaysOf(start, end) == ((startOfDay(end) - startOfDay(start)) \div Day) + 1

calculateDateRangeForDate(targetDate) ==
  DateRange(startOfDay(targetDate), endOfDay(targetDate))

calculateDateRangeForDays(daysBack, endAt) ==
  DateRange(startOfDay(endOfDay(endAt) - (daysBack - 1) * Day), endOfDay(endAt))

calculateDateRangeForHours(hoursBack, at) == DateRange(at - hoursBack * Hour, at)

calculateDateRangeFromStartEnd(start, end) ==
  IF ((endOfDay(end) - startOfDay(start)) \div Day) + 1 > maxInclusiveDays
  THEN RangeError("Date range too large")
  ELSE DateRange(startOfDay(start), endOfDay(end))

\* calculateDateRange with an unknown type taken for hours
DefaultingRange(timeframe, at) ==
  IF timeframe.hasStartDate /\ timeframe.hasEndDate
  THEN calculateDateRangeFromStartEnd(timeframe.startDate, timeframe.endDate)
  ELSE CASE timeframe.type = "date" -> calculateDateRangeForDate(timeframe.value)
         [] timeframe.type = "days" ->
              calculateDateRangeForDays(timeframe.value,
                IF timeframe.hasEndDate THEN timeframe.endDate ELSE at)
         [] OTHER -> calculateDateRangeForHours(timeframe.value, at)

calculateDateRange(timeframe, at) ==
  IF timeframe.hasStartDate /\ timeframe.hasEndDate
  THEN calculateDateRangeFromStartEnd(timeframe.startDate, timeframe.endDate)
  ELSE CASE timeframe.type = "date" -> calculateDateRangeForDate(timeframe.value)
         [] timeframe.type = "days" ->
              calculateDateRangeForDays(timeframe.value,
                IF timeframe.hasEndDate THEN timeframe.endDate ELSE at)
         [] timeframe.type = "hours" -> calculateDateRangeForHours(timeframe.value, at)
         [] OTHER -> RangeError("Unknown timeframe type")

\* validateDateRange without its guard on the length of the window
UnboundedValidate(start, end, at) ==
  IF start > end THEN "Start date cannot be after end date"
  ELSE IF start > at THEN "Start date cannot be in the future"
  ELSE ""

\* the message validateDateRange throws, "" when it returns; `at` is its own new Date()
validateDateRange(start, end, at) ==
  IF start > end THEN "Start date cannot be after end date"
  ELSE IF start > at THEN "Start date cannot be in the future"
  ELSE IF inclusiveDaysOf(start, end) > maxInclusiveDays THEN "Date range exceeds 7 days"
  ELSE ""

-----------------------------------------------------------------------------
(* Release: the GitHub path (fetchReleases), over an upstream that answers every request *)

isReleaseInDateRange(publishedAt, dateRange) ==
  LET publishedDate == newDate(publishedAt)
  IN  IF publishedDate < dateRange.startDate THEN FALSE
      ELSE IF publishedDate > dateRange.endDate THEN FALSE
      ELSE TRUE

ReleaseInfo(repository, tagName, name, publishedAt) ==
  [repository |-> repository, tagName |-> tagName, name |-> name, publishedAt |-> publishedAt]

RECURSIVE releasesOf(_, _, _)
releasesOf(repo, i, dateRange) ==
  IF i > Len(repo.releases) THEN << >>
  ELSE LET release == repo.releases[i]
           rest == releasesOf(repo, i + 1, dateRange)
       IN  IF isReleaseInDateRange(release.publishedAt, dateRange)
           THEN << ReleaseInfo(repo.name, release.tagName,
                               IF release.name # "" THEN release.name ELSE release.tagName,
                               release.publishedAt) >> \o rest
           ELSE rest

\* processRepositories taking the repositories last to first
RECURSIVE ReversedProcess(_, _)
ReversedProcess(repos, dateRange) ==
  IF repos = << >> THEN << >>
  ELSE ReversedProcess(Tail(repos), dateRange) \o releasesOf(repos[1], 1, dateRange)

RECURSIVE processRepositories(_, _)
processRepositories(repos, dateRange) ==
  IF repos = << >> THEN << >>
  ELSE releasesOf(repos[1], 1, dateRange) \o processRepositories(Tail(repos), dateRange)

\* fetchSpecificRepositories when every lookup answers
RECURSIVE specificRepositories(_, _)
specificRepositories(org, repositoryNames) ==
  IF repositoryNames = << >> THEN << >>
  ELSE LookupRepository(org, repositoryNames[1])
         \o specificRepositories(org, Tail(repositoryNames))

\* fetchAllRepositories when every page request answers
RECURSIVE allRepositories(_, _, _)
allRepositories(org, after, cutoff) ==
  LET page == PageAt(org, after)
      processed == processRepositoryPage(page.nodes, cutoff)
  IN  IF ~processed.shouldStop /\ page.hasNextPage /\ after < Len(org)
      THEN processed.processedRepos \o allRepositories(org, page.endCursor, cutoff)
      ELSE processed.processedRepos

fetchReleases(org, dateRange, repositoryNames) ==
  processRepositories(
    IF Len(repositoryNames) > 0 THEN specificRepositories(org, repositoryNames)
    ELSE allRepositories(org, 0, cutoffDateOf(dateRange.startDate)),
    dateRange)

-----------------------------------------------------------------------------
(* Release: the Snowflake path (fetchReleasesFromSnowflake) *)

\* A value of the release_published_at column: a timestamp, NULL, or a string
\* that is no date (ms is then where it sorts among the ISO strings, as
\* '2024-01-15T25:00:00Z' sorts inside 15 January).
Timestamp(ms) == [kind |-> "date", ms |-> ms]
NullValue == [kind |-> "null", ms |-> 0]
Unparseable(ms) == [kind |-> "text", ms |-> ms]

Row(repository, tag, name, publishedAt) ==
  [repository_name |-> repository, release_tag_name |-> tag, release_name |-> name,
   release_published_at |-> publishedAt]

RECURSIVE rowsOfRepo(_, _)
rowsOfRepo(repo, i) ==
  IF i > Len(repo.releases) THEN << >>
  ELSE << Row(repo.name, repo.releases[i].tagName, repo.releases[i].name,
              Timestamp(newDate(repo.releases[i].publishedAt))) >> \o rowsOfRepo(repo, i + 1)

RECURSIVE rowsOfRepos(_)
rowsOfRepos(repos) ==
  IF repos = << >> THEN << >> ELSE rowsOfRepo(repos[1], 1) \o rowsOfRepos(Tail(repos))

\* a release table holding the organisation's releases; one that also holds a
\* row with neither tag nor name and a row with no publication time; and one
\* that also holds a row whose publication time is no date
ReleaseTables(org) ==
  { rowsOfRepos(Flatten(org)),
    rowsOfRepos(Flatten(org)) \o << Row("r9", "", "", Timestamp(T - Day - 1)),
                                    Row("r8", "v1", "", NullValue) >>,
    rowsOfRepos(Flatten(org)) \o << Row("r1", "v9", "", Unparseable(T - Day + 1)) >> }

RECURSIVE orderByPublishedDesc(_)
orderByPublishedDesc(rows) ==
  IF rows = << >> THEN << >>
  ELSE LET m == CHOOSE i \in 1..Len(rows) :
                  /\ \A j \in 1..Len(rows) :
                        rows[i].release_published_at.ms >= rows[j].release_published_at.ms
                  /\ \A j \in 1..(i - 1) :
                        rows[j].release_published_at.ms # rows[i].release_published_at.ms
       IN  << rows[m] >>
             \o orderByPublishedDesc(SubSeq(rows, 1, m - 1) \o SubSeq(rows, m + 1, Len(rows)))

\* the rows the statement of buildReleasesSql selects, under its column aliases
buildReleasesSql(table, start, end, repositoryNames) ==
  LET selected == SelectSeq(table, LAMBDA row :
                    /\ row.release_published_at # NullValue
                    /\ row.release_published_at.ms >= start
                    /\ row.release_published_at.ms <= end
                    /\ (Len(repositoryNames) > 0 => InList(row.repository_name, repositoryNames)))
      ordered == orderByPublishedDesc(selected)
  IN  [i \in 1..Len(ordered) |->
         [REPOSITORY |-> ordered[i].repository_name,
          TAG_NAME |-> ordered[i].release_tag_name,
          RELEASE_NAME |-> IF ordered[i].release_name # "" THEN ordered[i].release_name
                           ELSE ordered[i].release_tag_name,
          RELEASE_PUBLISHED_AT |-> ordered[i].release_published_at]]

\* toIsoString: '' for a missing value, the ISO string of a date, and the
\* value's own text when it is no date
toIsoString(value) ==
  IF value.kind = "null" THEN EmptyString
  ELSE IF value.kind = "date" THEN toISOString(value.ms)
  ELSE [kind |-> "text", ms |-> value.ms, micros |-> 0]

mapRowToRelease(row) ==
  ReleaseInfo(row.REPOSITORY, row.TAG_NAME,
              IF row.RELEASE_NAME # "" THEN row.RELEASE_NAME ELSE row.TAG_NAME,
              toIsoString(row.RELEASE_PUBLISHED_AT))

fetchReleasesFromSnowflake(table, start, end, repositoryNames) ==
  LET rows == buildReleasesSql(table, start, end, repositoryNames)
      mapped == [i \in 1..Len(rows) |-> mapRowToRelease(rows[i])]
  IN  SelectSeq(mapped, LAMBDA r : r.repository # "" /\ r.publishedAt # EmptyString /\ r.name # "")

-----------------------------------------------------------------------------
(* Release.getReleases *)

\* getReleases up to its await: the window is resolved and validated; without a
\* Snowflake configuration the try block throws and the catch block logs
GetReleases(cfg, org, at, lag) ==
  /\ relPc \in {"idle", "returned", "threw"}
  /\ config' = cfg
  /\ github' = org
  /\ relNow' = at
  /\ githubCalls' = 0
  /\ LET range == calculateDateRange(cfg.timeframe, at)
          invalid == validateDateRange(range.startDate, range.endDate, at + lag)
     IN  IF range.error # ""
         THEN /\ relPc' = "threw"
              /\ relError' = range.error
              /\ window' = NoWindow
              /\ releases' = << >>
              /\ bulkFailed' = FALSE
              /\ bulkCalls' = 0
         ELSE IF invalid # ""
         THEN /\ relPc' = "threw"
              /\ relError' = invalid
              /\ window' = [startDate |-> range.startDate, endDate |-> range.endDate]
              /\ releases' = << >>
              /\ bulkFailed' = FALSE
              /\ bulkCalls' = 0
         ELSE /\ window' = [startDate |-> range.startDate, endDate |-> range.endDate]
              /\ relError' = ""
              /\ releases' = << >>
              /\ IF cfg.snowflake
                 THEN relPc' = "snowflake" /\ bulkFailed' = FALSE /\ bulkCalls' = 1
                 ELSE relPc' = "returned" /\ bulkFailed' = TRUE /\ bulkCalls' = 0
  /\ UNCHANGED <<repoVars, classifyVars, processVars, summaryVars>>

\* fetchReleasesFromSnowflake resolves; getReleases returns its releases
SnowflakeResolves(table) ==
  /\ relPc = "snowflake"
  /\ releases' = fetchReleasesFromSnowflake(table, window.startDate, window.endDate,
                                             config.repositories)
  /\ relPc' = "returned"
  /\ UNCHANGED <<relNow, config, github, window, relError, bulkFailed, githubCalls,
                 bulkCalls>>
  /\ UNCHANGED <<repoVars, classifyVars, processVars, summaryVars>>

\* fetchReleasesFromSnowflake rejects; the catch block logs and getReleases returns
SnowflakeRejects ==
  /\ relPc = "snowflake"
  /\ bulkFailed' = TRUE
  /\ relPc' = "returned"
  /\ UNCHANGED <<relNow, config, github, window, releases, relError, githubCalls,
                 bulkCalls>>
  /\ UNCHANGED <<repoVars, classifyVars, processVars, summaryVars>>

Timeframes ==
  {Timeframe("hours", n, FALSE, 0, FALSE, 0) : n \in {1, 24, 156, 157, 168}}
    \cup {Timeframe("days", n, FALSE, 0, FALSE, 0) : n \in {1, 7, 8}}
    \cup {Timeframe("days", 3, FALSE, 0, TRUE, T - 2 * Day)}
    \cup {Timeframe("date", d, FALSE, 0, FALSE, 0) : d \in {T - Day + 5 * Hour, T + 2 * Day}}
    \cup {Timeframe("days", 1, TRUE, T - 3 * Day, TRUE, T),
          Timeframe("days", 1, TRUE, T - 8 * Day, TRUE, T),
          Timeframe("days", 1, TRUE, T, TRUE, T - Day)}
    \cup {Timeframe("weeks", 1, FALSE, 0, FALSE, 0)}

RepositoryFilters == { << >>, << "r1" >>, << "r2", "zz" >> }

Configs ==
  {[timeframe |-> tf, repositories |-> names_, snowflake |-> sf] :
     tf \in Timeframes, names_ \in RepositoryFilters, sf \in BOOLEAN}

ReleaseOrgs == {OrgThree, OrgTwoPages}
ReleaseClocks == {T, T + 12 * Hour}

InitRelease ==
  InitRepository /\ NoClassification /\ NoReleaseCall /\ NoProcessCall /\ NoSummaryCall

NextRelease ==
  \/ \E cfg \in Configs, org \in ReleaseOrgs, at \in ReleaseClocks, lag \in {0, 1} :
       GetReleases(cfg, org, at, lag)
  \/ \E table \in ReleaseTables(github) : SnowflakeResolves(table)
  \/ SnowflakeRejects

SpecRelease == InitRelease /\ [][NextRelease]_vars

-----------------------------------------------------------------------------
(* isReleaseInDateRange and processRepositories on their own *)

NamedRel(t, n, p) == [tagName |-> t, name |-> n, publishedAt |-> toISOString(p)]

RepoA ==
  Repo("a", T, << NamedRel("v3", "Three", T - 1), NamedRel("v2", "", T - Day),
                  NamedRel("v1", "One", T - 2 * Day - 1) >>)
RepoB == Repo("b", T - 1, << NamedRel("v1", "", T - Day + 1) >>)
RepoC == Repo("c", T - 2, << >>)
\* releases not in order of publication
RepoD == Repo("d", T - 3, << NamedRel("v1", "", T - Day), NamedRel("v2", "Two", T - 1),
                            NamedRel("v0", "", T - 3 * Day) >>)

ProcessRepoLists ==
  { << >>, << RepoA >>, << RepoA, RepoB >>, << RepoB, RepoA >>, << RepoC, RepoA, RepoB >>,
    << RepoD, RepoC >>, << RepoB, RepoD, RepoA >> }

ProcessRanges == {DateRange(T - Day, T - 1), DateRange(T - 2 * Day, T)}

\* publication timestamps at and around the ends of the ranges, to the microsecond
ProcessStamps ==
  {IsoString(ms, micros) :
     ms \in {T - Day - 1, T - Day, T - Day + 1, T - 2, T - 1, T, T + 1},
     micros \in {0, 1, 999}}

ApplyIsReleaseInDateRange ==
  /\ inRange = "unknown"
  /\ inRange' = IF isReleaseInDateRange(procPublishedAt, procRange) THEN "in" ELSE "out"
  /\ UNCHANGED <<procPublishedAt, procRange, procRepos, procReleases>>
  /\ UNCHANGED <<repoVars, classifyVars, releaseVars, summaryVars>>

ApplyProcessRepositories ==
  /\ ~procReleases.done
  /\ procReleases' = [done |-> TRUE, releases |-> processRepositories(procRepos, procRange)]
  /\ UNCHANGED <<procPublishedAt, procRange, inRange, procRepos>>
  /\ UNCHANGED <<repoVars, classifyVars, releaseVars, summaryVars>>

InitProcess ==
  /\ InitRepository
  /\ NoClassification
  /\ NoReleaseCall
  /\ NoSummaryCall
  /\ procPublishedAt \in ProcessStamps
  /\ procRange \in ProcessRanges
  /\ inRange = "unknown"
  /\ procRepos \in ProcessRepoLists
  /\ procReleases = [done |-> FALSE, releases |-> << >>]

NextProcess == ApplyIsReleaseInDateRange \/ ApplyProcessRepositories

SpecProcess == InitProcess /\ [][NextProcess]_vars

\* several names in one fetchSpecificRepositories call
NameBatches == { << "r1", "zz", "r3" >>, << "r2", "r1" >>, << "r3", "r3" >> }

\* fetchSpecificRepositories calls with several names on one Repository
NextFetchSpecific ==
  \/ \E repositoryNames \in NameBatches : StartFetchSpecific(OrgThree, repositoryNames)
  \/ CheckCircuitBreaker
  \/ AttemptSucceeds
  \/ \E error \in PageErrors : AttemptFails(error)
  \/ FetchSpecificNext

SpecFetchSpecific == Init /\ [][NextFetchSpecific]_vars

\* a Repository whose early stop the caller may have switched off (as the tests do)
InitFetchAll ==
  /\ NoRepositoryCall /\ earlyStopEnabled \in BOOLEAN
  /\ NoClassification /\ NoReleaseCall /\ NoProcessCall /\ NoSummaryCall

\* paginated fetches on one Repository
NextFetchAll ==
  \/ \E org \in Orgs, start \in StartDates : StartFetchAll(org, start)
  \/ CheckCircuitBreaker
  \/ AttemptSucceeds
  \/ \E error \in PageErrors : AttemptFails(error)
  \/ FetchAllPage
  \/ FetchAllCatch

SpecFetchAll == InitFetchAll /\ [][NextFetchAll]_vars

\* the steps of a running fetch: each awaited request settles and each sleep ends
FetchAllProgress ==
  \/ CheckCircuitBreaker
  \/ AttemptSucceeds
  \/ \E error \in PageErrors : AttemptFails(error)
  \/ FetchAllPage
  \/ FetchAllCatch

SpecFetchAllFair == SpecFetchAll /\ WF_vars(FetchAllProgress)

-----------------------------------------------------------------------------
(* AI summaries: summarizeWithAnthropic and summarizeText.  A text is a       *)
(* sequence of tokens: words, runs of whitespace, and the references and     *)
(* links cleanDescription strips.                                            *)

Blank == " "
References == {"#123", "https://example.com/pull/123"}
NoDescription == <<"No description">>

RECURSIVE collapseWhitespace(_)
\* replace(/\s+/g, ' ')
collapseWhitespace(string) ==
  IF Len(string) < 2 THEN string
  ELSE IF string[1] = Blank /\ string[2] = Blank THEN collapseWhitespace(Tail(string))
  ELSE <<string[1]>> \o collapseWhitespace(Tail(string))

RECURSIVE trim(_)
trim(string) ==
  IF string # << >> /\ string[1] = Blank THEN trim(Tail(string))
  ELSE IF string # << >> /\ string[Len(string)] = Blank
  THEN trim(SubSeq(string, 1, Len(string) - 1))
  ELSE string

cleanDescription(description) ==
  IF description = << >> THEN NoDescription
  ELSE LET stripped == SelectSeq(description, LAMBDA token : token \notin References)
           cleaned == trim(collapseWhitespace(stripped))
       IN  IF cleaned = << >> THEN NoDescription ELSE cleaned

Marker == "## RELEASE DESCRIPTION TO SUMMARIZE:\n\n"

\* AI/instructions.md: the guidance, the marker, the placeholder and the final newline
Instructions == <<"# AI Summarization Instructions", Blank, Marker, "${text}", Blank>>

RECURSIVE indexOf(_, _, _)
\* the first position of token at or after from, or 0
indexOf(string, token, from) ==
  IF from > Len(string) THEN 0
  ELSE IF string[from] = token THEN from
  ELSE indexOf(string, token, from + 1)

\* String.prototype.replace with a string pattern: the first occurrence only
replaceFirst(string, token, replacement) ==
  LET at == indexOf(string, token, 1)
  IN  IF at = 0 THEN string
      ELSE SubSeq(string, 1, at - 1) \o replacement \o SubSeq(string, at + 1, Len(string))

extractOriginalText(promptText) ==
  LET markerIndex == indexOf(promptText, Marker, 1)
  IN  IF markerIndex # 0 THEN SubSeq(promptText, markerIndex + 1, Len(promptText))
      ELSE promptText

DEFAULT_MODEL == "anthropic/claude-sonnet-4"

getModelForAttempt0(env) == IF env.AI_MODEL # "" THEN env.AI_MODEL ELSE DEFAULT_MODEL

\* what the Messages API may answer
AnthropicReplies ==
  {[kind |-> "rejects"], [kind |-> "status", ok |-> FALSE]}
    \cup {[kind |-> "status", ok |-> TRUE, content |-> content] :
            content \in {<< >>, <<[type |-> "tool_use"]>>, <<[text |-> << >>]>>,
                         <<[text |-> <<Blank>>]>>,
                         <<[text |-> <<"Sign-in", Blank, "is", Blank, "faster">>]>>}}

\* what summarizeWithAnthropic gives back once fetch has settled with reply, and
\* why it is not the provider's summary
summarizeWithAnthropicAfter(string, reply) ==
  IF reply.kind = "rejects" \/ ~reply.ok
  THEN [value |-> cleanDescription(extractOriginalText(string)), failed |-> "API error"]
  ELSE LET \* data.content[0].text ?? '' when data.content is a non-empty array, else ''
           content == IF Len(reply.content) = 0 THEN << >>
                      ELSE IF "text" \in DOMAIN reply.content[1] THEN reply.content[1].text
                      ELSE << >>
       IN  IF content = << >>
           THEN [value |-> cleanDescription(extractOriginalText(string)),
                 failed |-> "empty content"]
           ELSE [value |-> content, failed |-> ""]

\* what chat.completions.create may answer
OpenRouterReplies ==
  {[kind |-> "rejects"], [kind |-> "resolves", choices |-> << >>]}
    \cup {[kind |-> "resolves", choices |-> <<[content |-> content]>>] :
            content \in {<< >>, <<Blank>>, <<"Faster", Blank, "sign-in">>}}

\* summary && summary.trim()
hasSummary(summary) == summary # << >> /\ trim(summary) # << >>

SummaryReturns(value) ==
  /\ sumPc' = "returned"
  /\ sumResult' = value

\* the fallback block of summarizeText, up to its request
FallBackToOpenRouter(tried, sent) ==
  /\ sumTried' = Append(tried, "openrouter")
  /\ IF ~openai /\ sumEnv'.OPENROUTER_API_KEY = ""
     THEN /\ SummaryReturns(cleanDescription(sumText'))
          /\ sumSent' = sent
          /\ UNCHANGED openai
     ELSE /\ openai' = TRUE
          /\ sumSent' = Append(sent, [provider |-> "openrouter",
                                      model |-> getModelForAttempt0(sumEnv')])
          /\ sumPc' = "openrouter"
          /\ sumResult' = << >>

\* what summarizeText does with the value summarizeWithAnthropic returned
AfterAnthropic(summary, tried, sent) ==
  IF hasSummary(summary)
  THEN /\ SummaryReturns(summary)
       /\ sumTried' = tried
       /\ sumSent' = sent
       /\ UNCHANGED openai
  ELSE FallBackToOpenRouter(tried, sent)

\* summarizeText up to its first request, or to its return when it makes none
SummarizeText(string, env) ==
  /\ sumPc \in {"idle", "returned"}
  /\ sumText' = string
  /\ sumEnv' = env
  /\ IF ~env.instructions
     THEN /\ SummaryReturns(cleanDescription(string))
          /\ sumPrompt' = << >>
          /\ sumTried' = << >>
          /\ sumSent' = << >>
          /\ sumFailed' = ""
          /\ UNCHANGED openai
     ELSE /\ sumPrompt' = replaceFirst(Instructions, "${text}", string)
          /\ IF ~env.config
             THEN /\ sumFailed' = "config error"
                  /\ FallBackToOpenRouter(<< >>, << >>)
             ELSE IF trim(<<env.ANTHROPIC_API_KEY>>) \in {<< >>, <<"">>}
             THEN /\ sumFailed' = "no API key"
                  /\ AfterAnthropic(cleanDescription(extractOriginalText(sumPrompt')),
                                    <<"anthropic">>, << >>)
             ELSE /\ sumFailed' = ""
                  /\ sumTried' = <<"anthropic">>
                  /\ sumSent' = <<[provider |-> "anthropic",
                                   model |-> IF env.ANTHROPIC_MODEL # ""
                                             THEN env.ANTHROPIC_MODEL
                                             ELSE "claude-3-5-sonnet-20241022"]>>
                  /\ sumPc' = "anthropic"
                  /\ sumResult' = << >>
                  /\ UNCHANGED openai
  /\ UNCHANGED <<repoVars, classifyVars, releaseVars, processVars>>

\* the Messages API answers, and summarizeText goes on from there
AnthropicResponds(reply) ==
  /\ sumPc = "anthropic"
  /\ UNCHANGED <<sumText, sumEnv, sumPrompt>>
  /\ LET settled == summarizeWithAnthropicAfter(sumPrompt, reply)
     IN  /\ sumFailed' = IF settled.failed = "" /\ ~hasSummary(settled.value)
                         THEN "blank content" ELSE settled.failed
         /\ AfterAnthropic(settled.value, sumTried, sumSent)
  /\ UNCHANGED <<repoVars, classifyVars, releaseVars, processVars>>

\* OpenRouter answers: its summary if it has one, else the cleaned text
OpenRouterResponds(reply) ==
  /\ sumPc = "openrouter"
  /\ IF reply.kind = "resolves" /\ reply.choices # << >>
        /\ hasSummary(reply.choices[1].content)
     THEN SummaryReturns(reply.choices[1].content)
     ELSE SummaryReturns(cleanDescription(sumText))
  /\ UNCHANGED <<openai, sumText, sumEnv, sumPrompt, sumTried, sumSent, sumFailed>>
  /\ UNCHANGED <<repoVars, classifyVars, releaseVars, processVars>>

SummaryTexts ==
  {<<"Fix", Blank, "sign-in">>, <<"Fix", Blank, "sign-in", Blank, "#123">>,
   <<"#123", Blank, "https://example.com/pull/123">>, << >>}

SummaryEnvs ==
  [instructions : BOOLEAN, config : BOOLEAN, ANTHROPIC_MODEL : {"", "claude-3-haiku"},
   ANTHROPIC_API_KEY : {"", Blank, "sk-ant"}, OPENROUTER_API_KEY : {"", "sk-or"},
   AI_MODEL : {"", "openai/gpt-4o-mini"}]

InitSummarize ==
  InitRepository /\ NoClassification /\ NoReleaseCall /\ NoProcessCall /\ NoSummaryCall

\* summarizeText, call after call in one process
NextSummarize ==
  \/ \E string \in SummaryTexts, env \in SummaryEnvs : SummarizeText(string, env)
  \/ \E reply \in AnthropicReplies : AnthropicResponds(reply)
  \/ \E reply \in OpenRouterReplies : OpenRouterResponds(reply)

SpecSummarize == InitSummarize /\ [][NextSummarize]_vars

-----------------------------------------------------------------------------
(* Properties of fetchAllRepositories, checked under SpecFetchAll *)

Names(repos) == [i \in 1..Len(repos) |-> repos[i].name]

\* C3: when the page request of fetchAllRepositories has thrown (a non-retryable
\* error, or the last error after maxRetries attempts), fetchAllRepositories ends
\* by throwing that same error and returns no repository, whatever it had
\* accumulated from earlier pages.
C3_FailedPageAbortsFetch ==
  [][(mode = "fetchAll" /\ epc = "threw")
       => (mode' = "idle" /\ outcome' = Threw(lastError) /\ outcome'.value = << >>)]_vars

\* C3 witness: the fetch threw the page error although a page had been accumulated.
C3_Witness ==
  /\ mode = "idle"
  /\ outcome.kind = "threw"
  /\ outcome.error = E502
  /\ repositories # << >>
  /\ Len(requested) = 2

\* C10 as claimed: early stop enabled, startDate = T and a first page updated at
\* [T, T - 1 day, T - 20 days]: the fetch returns exactly the first two
\* repositories and requests no further page.
C10_ReturnsFirstTwo ==
  (/\ mode = "idle"
   /\ outcome.kind = "returned"
   /\ earlyStopEnabled
   /\ upstream = OrgRecentAndOld
   /\ startDate = T)
  => (Names(outcome.value) = << "r1", "r2" >> /\ requested = << 0 >>)

\* the repositories of a page older than the cutoff, by position
OlderThan(repos, cutoff) == {i \in 1..Len(repos) : repos[i].updatedAt < cutoff}

FirstOlder(repos, cutoff) ==
  CHOOSE i \in OlderThan(repos, cutoff) : \A j \in OlderThan(repos, cutoff) : i <= j

C12_EarlyStopCutsPage ==
  [][(/\ mode = "fetchAll"
      /\ epc = "returned"
      /\ execResult.organization
      /\ earlyStopEnabled
      /\ OlderThan(execResult.nodes, cutoffDate) # {})
     => LET k == FirstOlder(execResult.nodes, cutoffDate)
        IN  /\ mode' = "idle"
            /\ outcome'.kind = "returned"
            /\ Names(outcome'.value)
                 = Names(repositories) \o Names(SubSeq(execResult.nodes, 1, k - 1))
            /\ \A i \in k..Len(execResult.nodes) :
                 ~InList(execResult.nodes[i].name, Names(outcome'.value))
            /\ requested' = requested
            /\ ~hasNextPage']_vars

\* C12 witness: a fetch stopped early on a page that reported a further page.
C12_Witness ==
  /\ mode = "idle"
  /\ outcome.kind = "returned"
  /\ earlyStopEnabled
  /\ execResult.organization
  /\ execResult.hasNextPage
  /\ OlderThan(execResult.nodes, cutoffDate) # {}
  /\ Len(requested) = pageCount

-----------------------------------------------------------------------------
(* Properties of executeWithRetry, checked under Spec *)

GatewaySchedule == << 5000, 10000, 20000, 30000 >>

AllGateway == \A i \in 1..Len(failures) : is502Error(failures[i])

\* C4 as claimed: three 502 failures in a row with no successful operation in
\* between, in one call or over several, leave the circuit breaker open.
C4_ThreeFailuresOpen ==
  (epc \in {"try", "threw"} /\ Len(failures) >= 1 /\ run502 >= threshold)
    => circuitBreaker.isOpen

\* C4 amended: three 502 failures in a row with neither a successful operation
\* nor a cooldown-expiry reset of the breaker in between leave it open.
C4_ThreeFailuresSinceResetOpen ==
  runSinceReset >= threshold => circuitBreaker.isOpen

\* C4 witness: the third failure in a row came in a later call than the first.
C4_Witness ==
  /\ runSinceReset = threshold
  /\ calls = 2
  /\ Len(failures) = 1
  /\ circuitBreaker.isOpen

\* C5: a call that finds the breaker open less than `timeout` after the last
\* failure does not invoke the operation before it has waited the remaining
\* time, and then goes on to attempt the operation instead of failing.
C5_OpenBreakerDelaysCall ==
  [][(epc = "gate" /\ circuitBreaker.isOpen /\ now - circuitBreaker.lastFailureTime < timeout)
       => (/\ opCalls = 0
           /\ opCalls' = 0
           /\ now' - now >= timeout - (now - circuitBreaker.lastFailureTime)
           /\ epc' = "try"
           /\ attempt' = 1)]_vars

\* C5 witness: a call waited at the open breaker and then invoked the operation.
C5_Witness == gateWait > 0 /\ openAtStart /\ opCalls >= 1 /\ gateWait < timeout

\* C6: when executeWithRetry has just returned a result, failureCount is 0 and
\* the breaker is closed, whatever it was when the call started.
C6_SuccessClosesBreaker ==
  epc = "returned" => (circuitBreaker.failureCount = 0 /\ ~circuitBreaker.isOpen)

\* C6 witness: a call that started with the breaker open returned a result.
C6_Witness == epc = "returned" /\ openAtStart /\ gateWait > 0

\* C7: a failure classified not retryable is the last attempt of its call: the
\* call throws it at once, having slept only after the earlier failures; if it
\* is the first failure, the operation was invoked exactly once.
C7_FatalErrorThrownAtOnce ==
  \A i \in 1..Len(failures) :
    ~isRetryableError(failures[i])
      => (/\ i = Len(failures)
          /\ epc \in {"threw", "idle"}
          /\ lastError = failures[i]
          /\ opCalls = i
          /\ Len(delays) = i - 1)

\* C7 witness: a 404 on the first attempt ended the call after one invocation.
C7_Witness == epc = "threw" /\ failures = << E404 >> /\ opCalls = 1 /\ delays = << >>

\* C8: while every failure of a call is a 502, the call makes at most maxRetries
\* attempts and the delays between them are 5 s, 10 s, 20 s, 30 s in that order:
\* strictly increasing and never above maxDelay.
C8_GatewayBackoff ==
  AllGateway
    => (/\ opCalls <= maxRetries
        /\ Len(delays) <= Len(GatewaySchedule)
        /\ \A i \in 1..Len(delays) : delays[i] = GatewaySchedule[i] /\ delays[i] <= maxDelay
        /\ \A i \in 1..(Len(delays) - 1) : delays[i] < delays[i + 1])

\* C8 witness: five 502 failures, the four delays of the schedule between them.
C8_Witness ==
  /\ epc = "threw"
  /\ Len(failures) = maxRetries
  /\ AllGateway
  /\ opCalls = maxRetries
  /\ delays = GatewaySchedule

-----------------------------------------------------------------------------
(* Properties of isRetryableError, checked under SpecClassify *)

Is5xx(error) == statusOf(error) >= 500 /\ statusOf(error) <= 599
Is4xx(error) == statusOf(error) >= 400 /\ statusOf(error) <= 499
IsTransport(error) == error.code \in TransportCodes

-----------------------------------------------------------------------------
(* Properties of getReleases, checked under SpecRelease *)

\* the releases of the requested repositories published inside the window
CompleteReleases ==
  processRepositories(
    IF Len(config.repositories) > 0
    THEN SelectSeq(Flatten(github), LAMBDA repo : InList(repo.name, config.repositories))
    ELSE Flatten(github),
    window)

\* C1: whenever the Snowflake path is unavailable (no configuration) or throws,
\* getReleases calls the GitHub path and returns exactly the list that path
\* produces, not an error.
C1_BulkFailureFallsBack ==
  (relPc = "returned" /\ bulkFailed)
    => /\ githubCalls >= 1
       /\ releases = fetchReleases(github, window, config.repositories)

\* C2: a getReleases call that returns after its data source failed returns the
\* complete list of the releases of the requested repositories published inside
\* the window; it never returns a shorter list.
C2_CompleteOrThrows ==
  (relPc = "returned" /\ bulkFailed)
    => \A i \in 1..Len(CompleteReleases) : InList(CompleteReleases[i], releases)

\* the timeframe of the configuration is Hours(n), Days(n) or Date(d)
IsDescriptor(timeframe) ==
  /\ ~(timeframe.hasStartDate /\ timeframe.hasEndDate)
  /\ timeframe.type \in {"hours", "days", "date"}

\* C13: for an Hours(n), Days(n) or Date(d) timeframe, either getReleases goes
\* on with a window whose start is not after its end, not in the future, and
\* which spans at most 7 UTC calendar days inclusive, or it has thrown the
\* error named after the bound the window breaks.
C13_WindowWithinBoundsOrError ==
  (relPc # "idle" /\ IsDescriptor(config.timeframe))
    => IF relPc = "threw"
       THEN /\ relError \in {"Start date cannot be after end date",
                              "Start date cannot be in the future",
                              "Date range exceeds 7 days"}
            /\ relError = "Start date cannot be after end date"
                 => window.startDate > window.endDate
            /\ relError = "Start date cannot be in the future"
                 => window.startDate > relNow
            /\ relError = "Date range exceeds 7 days"
                 => ((window.endDate \div Day) - (window.startDate \div Day)) + 1 > 7
       ELSE /\ window.startDate <= window.endDate
            /\ window.startDate <= relNow + 1
            /\ ((window.endDate \div Day) - (window.startDate \div Day)) + 1 <= 7

\* C13 witness: Days(7) went on with a window of exactly 7 calendar days.
C13_Witness ==
  /\ relPc = "snowflake"
  /\ config.timeframe.type = "days"
  /\ config.timeframe.value = 7
  /\ IsDescriptor(config.timeframe)
  /\ window.endDate - window.startDate = 7 * Day - 1

\* C14: when the timeframe cannot be resolved (unknown type, explicit range too
\* large) or the window fails validation, getReleases throws that error at
\* once: Snowflake and Repository have not been called, and the error was not
\* caught by the catch block of the Snowflake path; and a call that did not
\* throw has a resolved and valid window.
C14_ValidationErrorRaisedAtOnce ==
  /\ relPc = "threw"
       => (relError # "" /\ bulkCalls = 0 /\ githubCalls = 0 /\ ~bulkFailed
           /\ releases = << >>)
  /\ (relPc # "idle" /\ ~(config.timeframe.hasStartDate /\ config.timeframe.hasEndDate)
        /\ config.timeframe.type \notin {"hours", "days", "date"})
       => (relPc = "threw" /\ relError = "Unknown timeframe type")
  /\ (relPc # "idle" /\ config.timeframe.hasStartDate /\ config.timeframe.hasEndDate
        /\ config.timeframe.endDate - config.timeframe.startDate >= 7 * Day)
       => (relPc = "threw" /\ relError = "Date range too large")
  /\ relPc \in {"snowflake", "returned"}
       => (/\ window.startDate <= window.endDate
           /\ window.startDate <= relNow + 1
           /\ ((window.endDate \div Day) - (window.startDate \div Day)) + 1 <= 7)

\* C14 witness: a configuration with Snowflake set up and a timeframe of an
\* unknown type made getReleases throw.
C14_Witness ==
  /\ relPc = "threw"
  /\ config.snowflake
  /\ relError = "Unknown timeframe type"
  /\ bulkCalls = 0

-----------------------------------------------------------------------------
(* Properties of isReleaseInDateRange and processRepositories, checked under SpecProcess *)

\* C15 as claimed: a release published exactly at startDate or exactly at
\* endDate is inside the range, and a release published one microsecond before
\* startDate or one microsecond after endDate is outside it.
C15_BoundaryInclusive ==
  inRange # "unknown"
    => /\ procPublishedAt = IsoString(procRange.startDate, 0) => inRange = "in"
       /\ procPublishedAt = IsoString(procRange.endDate, 0) => inRange = "in"
       /\ procPublishedAt = IsoString(procRange.startDate - 1, 999) => inRange = "out"
       /\ procPublishedAt = IsoString(procRange.endDate, 1) => inRange = "out"

\* the releases of procRepos inside procRange, by repository and position
Qualifying ==
  {q \in UNION {{<<i, j>> : j \in 1..Len(procRepos[i].releases)} : i \in 1..Len(procRepos)} :
     /\ procRepos[q[1]].releases[q[2]].publishedAt.ms >= procRange.startDate
     /\ procRepos[q[1]].releases[q[2]].publishedAt.ms <= procRange.endDate}

\* how many qualifying releases come before q, plus one
RankOf(q) ==
  Cardinality({r \in Qualifying : r[1] < q[1] \/ (r[1] = q[1] /\ r[2] < q[2])}) + 1

\* C16: what processRepositories returns is the qualifying releases of the
\* repositories, each once, repositories in the order given and the releases of
\* a repository in the order it holds them.
C16_OrderPreservingSelection ==
  procReleases.done
    => /\ Len(procReleases.releases) = Cardinality(Qualifying)
       /\ \A q \in Qualifying :
            LET release == procRepos[q[1]].releases[q[2]]
                info == procReleases.releases[RankOf(q)]
            IN  /\ info.repository = procRepos[q[1]].name
                /\ info.tagName = release.tagName
                /\ info.publishedAt = release.publishedAt
                /\ info.name = IF release.name = "" THEN release.tagName ELSE release.name

\* C16 witness: three repositories, one of them with releases out of order of
\* publication, gave a list that leaves some releases out.
C16_Witness ==
  /\ procReleases.done
  /\ procRepos = << RepoB, RepoD, RepoA >>
  /\ Len(procReleases.releases) = 5

-----------------------------------------------------------------------------
(* Properties of the releases getReleases returns, checked under SpecRelease *)

\* C17 as claimed: every release getReleases returns has a repository, a name
\* and a publishedAt that parses as an ISO-8601 timestamp.
C17_ReleasesWellFormed ==
  relPc = "returned"
    => \A i \in 1..Len(releases) :
         /\ releases[i].repository # ""
         /\ releases[i].name # ""
         /\ releases[i].publishedAt.kind = "iso"

-----------------------------------------------------------------------------
(* Properties of fetchSpecificRepositories, checked under SpecFetchSpecific *)

\* the positions of names that were not given up on, in order
KeptPositions ==
  SelectSeq([i \in 1..Len(names) |-> i], LAMBDA i : ~InList(i, skipped))

\* C18: fetchSpecificRepositories asks for every requested name, one
\* executeWithRetry per name in request order; a lookup that throws or finds
\* nothing is skipped and the loop goes on to the next name; the call never
\* throws, and it returns exactly the repositories found, in request order.
C18_EveryNameAttempted ==
  /\ [](/\ mode = "fetchSpecific" => requested = SubSeq(names, 1, nameIdx)
        /\ outcome.kind # "threw"
        /\ (mode = "idle" /\ outcome.kind = "returned")
             => (/\ requested = names
                 /\ Len(outcome.value) = Len(KeptPositions)
                 /\ \A k \in 1..Len(KeptPositions) :
                      << outcome.value[k] >>
                        = LookupRepository(upstream, names[KeptPositions[k]])
                 /\ \A i \in 1..Len(names) :
                      LookupRepository(upstream, names[i]) = << >> => InList(i, skipped)))
  /\ [][(mode = "fetchSpecific" /\ epc \in {"returned", "threw"})
         => (/\ (epc = "threw" \/ execResult = << >>)
                  => (repositories' = repositories /\ skipped' = Append(skipped, nameIdx))
             /\ (epc = "returned" /\ execResult # << >>)
                  => (repositories' = repositories \o execResult /\ skipped' = skipped)
             /\ IF nameIdx < Len(names)
                THEN mode' = "fetchSpecific" /\ nameIdx' = nameIdx + 1 /\ epc' = "gate"
                ELSE mode' = "idle" /\ outcome' = Returned(repositories'))]_vars

\* C18 witness: of three names the first lookup threw, the second found
\* nothing and the third found its repository, which is what was returned.
C18_Witness ==
  /\ mode = "idle"
  /\ outcome.kind = "returned"
  /\ names = << "r1", "zz", "r3" >>
  /\ skipped = << 1, 2 >>
  /\ Names(outcome.value) = << "r3" >>

-----------------------------------------------------------------------------
(* Further properties of executeWithRetry, checked under Spec *)

\* C19 as claimed: when the operation has thrown an ordinary error (an Error
\* with no status and no code) on each of its first k attempts, k < maxRetries,
\* the call has not thrown: it goes on to attempt k + 1, and if that attempt
\* succeeds it returns after exactly k + 1 invocations.
C19_OrdinaryErrorRetried ==
  (/\ Len(failures) >= 1
   /\ Len(failures) < maxRetries
   /\ \A i \in 1..Len(failures) : failures[i] = EPlain)
  => (/\ epc # "threw"
      /\ epc = "returned" => opCalls = Len(failures) + 1)

\* C20: after the k-th failed attempt of a call, when its error is retryable
\* and not a 502, the call sleeps min(baseDelay * 2^(k-1), maxDelay).
C20_StandardBackoff ==
  \A k \in 1..Len(delays) :
    (isRetryableError(failures[k]) /\ ~is502Error(failures[k]))
      => delays[k] = Min(baseDelay * Pow2(k - 1), maxDelay)

\* C20 witness: connection resets on all five attempts, four delays between them.
C20_Witness ==
  /\ epc = "threw"
  /\ failures = << EConnReset, EConnReset, EConnReset, EConnReset, EConnReset >>
  /\ delays = << 2000, 4000, 8000, 16000 >>

-----------------------------------------------------------------------------
(* Further properties of getReleases, checked under SpecRelease *)

\* the timeframes parseHoursArgument and parseDaysArgument let through
CliAccepts(timeframe) ==
  /\ ~timeframe.hasStartDate
  /\ ~timeframe.hasEndDate
  /\ \/ timeframe.type = "hours" /\ timeframe.value \in 1..168
     \/ timeframe.type = "days" /\ timeframe.value \in 1..7

\* C21 as claimed: a timeframe of 1 to 168 hours or of 1 to 7 days is never
\* rejected by getReleases for exceeding the 7-day limit.
C21_CliTimeframesAccepted ==
  (relPc # "idle" /\ CliAccepts(config.timeframe))
    => ~(relPc = "threw" /\ relError = "Date range exceeds 7 days")

-----------------------------------------------------------------------------
(* Properties of summarizeText, checked under SpecSummarize *)

AnthropicGaveNothing == sumFailed \in {"no API key", "API error", "empty content"}

TriedOpenRouter == \E i \in DOMAIN sumTried : sumTried[i] = "openrouter"

\* C22 as claimed: when summarizeText has returned and its Anthropic attempt gave no
\* summary (no API key, an API error, or empty content), it has turned to OpenRouter
\* before returning.  The code returns the cleaned text summarizeWithAnthropic hands
\* back as if it were the summary, so this is violated.
C22_AnthropicFailureTriesOpenRouter ==
  (sumPc = "returned" /\ AnthropicGaveNothing) => TriedOpenRouter

-----------------------------------------------------------------------------
(* The circuit breaker across calls and retries, checked under Spec *)

\* C23 as claimed: whenever an attempt is about to be issued while the breaker is
\* open, at least timeout milliseconds have passed since the last recorded 502
\* failure; this covers the first attempt of a call and every retry inside it.
C23_OpenBreakerHoldsAttempts ==
  (epc = "try" /\ circuitBreaker.isOpen)
    => now - circuitBreaker.lastFailureTime >= timeout
\* C24 as claimed: an attempt that fails with an error classified not retryable
\* ends the call and leaves the circuit breaker (failureCount, lastFailureTime,
\* isOpen) as it was.
C24_FatalFailureLeavesBreaker ==
  [][(epc = "try" /\ epc' = "threw" /\ ~isRetryableError(lastError'))
       => circuitBreaker' = circuitBreaker]_vars
\* C25: a call that finds the breaker open at least `timeout` after the last
\* recorded failure closes it and sets failureCount to 0 in its check, and goes on
\* to its first attempt with no wait and no operation invoked before.
C25_CooledBreakerClosesAtOnce ==
  [][(epc = "gate" /\ circuitBreaker.isOpen
        /\ now - circuitBreaker.lastFailureTime >= timeout)
       => (/\ circuitBreaker' = [circuitBreaker EXCEPT !.isOpen = FALSE, !.failureCount = 0]
           /\ now' = now
           /\ gateWait' = 0
           /\ opCalls = 0
           /\ opCalls' = 0
           /\ attempt' = 1
           /\ epc' = "try")]_vars

\* C25 witness: a call that started with the breaker open went through its check
\* without waiting and has invoked the operation.
C25_Witness == openAtStart /\ gateWait = 0 /\ opCalls >= 1 /\ epc # "gate"
AllRetryable == \A i \in 1..Len(failures) : isRetryableError(failures[i])

\* C26: one executeWithRetry call invokes the operation at most maxRetries times,
\* and a call whose attempts all failed with retryable errors has thrown only
\* after exactly maxRetries invocations, and what it threw is the last failure.
C26_AtMostMaxRetries ==
  /\ opCalls <= maxRetries
  /\ (epc = "threw" /\ AllRetryable)
       => (/\ opCalls = maxRetries
           /\ Len(failures) = maxRetries
           /\ lastError = failures[maxRetries])

\* C26 witness: a call has thrown after maxRetries retryable failures, not all of
\* one kind.
C26_Witness ==
  /\ epc = "threw"
  /\ AllRetryable
  /\ opCalls = maxRetries
  /\ failures[1] # failures[maxRetries]

-----------------------------------------------------------------------------
(* Pagination of fetchAllRepositories, checked under SpecFetchAll *)

\* C27: once a page has been processed, fetchAllRepositories goes on to another
\* page exactly when early stop was not triggered by the page and the page says
\* hasNextPage; the next request is for the page's endCursor and is not started
\* before pageDelay milliseconds have passed; after the last page the fetch
\* returns with no delay and no further request.
C27_NextPageAfterDelay ==
  [][(mode = "fetchAll" /\ epc = "returned" /\ execResult.organization)
       => LET stopped == earlyStopEnabled /\ OlderThan(execResult.nodes, cutoffDate) # {}
          IN  IF ~stopped /\ execResult.hasNextPage
              THEN /\ mode' = "fetchAll"
                   /\ epc' = "gate"
                   /\ opCalls' = 0
                   /\ requested' = Append(requested, execResult.endCursor)
                   /\ cursor' = execResult.endCursor
                   /\ now' = now + pageDelay
              ELSE /\ mode' = "idle"
                   /\ outcome'.kind = "returned"
                   /\ requested' = requested
                   /\ now' = now]_vars

\* C27 witness: a first fetch over two pages with no failure has returned, having
\* asked for the second page by the first page's endCursor and slept once.
C27_Witness ==
  /\ mode = "idle"
  /\ calls = 1
  /\ outcome.kind = "returned"
  /\ upstream # << >>
  /\ upstream[1].hasNextPage
  /\ requested = << 0, upstream[1].endCursor >>
  /\ now = pageDelay

Descending(repos) ==
  \A i \in 1..Len(repos), j \in 1..Len(repos) :
    i < j => repos[i].updatedAt >= repos[j].updatedAt

\* the repositories of org updated at or after cutoff, in upstream order, each
\* with its releases published at or after cutoff
WithinCutoff(org, cutoff) ==
  LET recent == SelectSeq(Flatten(org), LAMBDA repo : repo.updatedAt >= cutoff)
  IN  [i \in 1..Len(recent) |->
         [name |-> recent[i].name,
          updatedAt |-> recent[i].updatedAt,
          releases |-> SelectSeq(recent[i].releases,
                                 LAMBDA release : newDate(release.publishedAt) >= cutoff)]]

\* C28: over an upstream that lists repositories by descending updatedAt, what
\* fetchAllRepositories returns with early stop enabled is exactly the upstream
\* repositories updated at or after cutoffDate, in upstream order, each with
\* exactly its releases published at or after cutoffDate.
C28_EarlyStopKeepsAllRecent ==
  (/\ mode = "idle"
   /\ outcome.kind = "returned"
   /\ earlyStopEnabled
   /\ Descending(Flatten(upstream)))
  => outcome.value = WithinCutoff(upstream, cutoffDate)

\* C28 witness: an early-stopped fetch returned two repositories of a larger
\* organisation, the first with one of its two releases filtered out.
C28_Witness ==
  /\ mode = "idle"
  /\ outcome.kind = "returned"
  /\ earlyStopEnabled
  /\ upstream = OrgRecentAndOld
  /\ Len(outcome.value) = 2
  /\ Len(outcome.value[1].releases) = 1
  /\ requested = << 0 >>

NoRepeat(list) == \A i \in 1..Len(list), j \in 1..Len(list) : list[i] = list[j] => i = j

\* C29: within one fetchAllRepositories call no cursor is asked for as a new
\* page twice (retries of a failed request aside), and a running fetch, whose
\* requests and sleeps each end, eventually returns or throws.
C29_FetchAllTerminates ==
  /\ [](mode = "fetchAll" => NoRepeat(requested))
  /\ (mode = "fetchAll" ~> (mode = "idle" /\ outcome.kind \in {"returned", "threw"}))

\* C29 witness: a second fetch on the same Repository went through two pages.
C29_Witness ==
  /\ mode = "idle"
  /\ calls = 2
  /\ outcome.kind \in {"returned", "threw"}
  /\ Len(requested) = 2
  /\ NoRepeat(requested)

-----------------------------------------------------------------------------
(* The circuit breaker's record, checked under Spec *)

\* C30: in every state between the steps of executeWithRetry, over any sequence
\* of calls on one Repository, the breaker is open exactly when failureCount has
\* reached the threshold.
C30_OpenIffThreshold ==
  circuitBreaker.isOpen <=> circuitBreaker.failureCount >= threshold

\* C30 witness: a call has thrown after its five 502 failures, the breaker open
\* and the count past the threshold.
C30_Witness ==
  /\ epc = "threw"
  /\ circuitBreaker.isOpen
  /\ circuitBreaker.failureCount = maxRetries
  /\ circuitBreaker.failureCount > threshold

====
